---------------------------- MODULE Spec2Model ----------------------------
(***************************************************************************)
(* A model of scroll-binder (src/scroll-binder.js): the module singleton   *)
(* (exports.init / exports.destroy), the ScrollBinder object, its scroll   *)
(* throttle (onScroll with its 16ms and 64ms timers), the frame callbacks  *)
(* scheduled by animate, and the interpolation function built by           *)
(* buildPropertyFunction.                                                  *)
(*                                                                         *)
(* JavaScript runs every handler to completion on one event loop, so each  *)
(* handler (an API call, a scroll event dispatch, a timer callback, a      *)
(* frame callback) is one atomic action.                                   *)
(*                                                                         *)
(* Numbers.  CSS values (from, to, the interpolated value) are fixed-point *)
(* integers counting thousandths: 20 is written 20000, 0.5 is written 500. *)
(* Scroll positions and distances (scrollPos, over) are whole pixels.  The *)
(* arithmetic is exact rational arithmetic; the binary floating-point      *)
(* error of the JavaScript double is not modelled.                         *)
(*                                                                         *)
(* Time.  Timers fire exactly when their delay has elapsed.                *)
(***************************************************************************)
EXTENDS Integers, Sequences, FiniteSets, TLC

(***************************************************************************)
(* Bounds of the model.                                                    *)
(***************************************************************************)
\* a ScrollBinder object is constructed only while fewer than MaxInst
\* objects are alive outside the singleton slot (destroyed objects that
\* still have a timer or a frame callback to run)
MaxInst == 1
\* number of ScrollBinder objects constructed in all (calls of exports.init
\* that find the slot empty)
MaxBuilt == 2
\* longest stretch of time (ms) that passes in one step; time also stops at
\* every timer deadline, whatever the value of Tick
Tick == 8

(***************************************************************************)
(* Program constants.                                                      *)
(***************************************************************************)
\* setTimeout(..., 16): the throttle window
ThrottleDelay == 16
\* setTimeout(..., 64): the trailing timer
TrailingDelay == 64
\* the frame callback runs at the next animation frame, at the latest
\* 1000 / 60 ms after animate asked for it (setTimeout takes whole ms and
\* truncates 16.67 to 16)
FrameDelay == 16
\* options.over || 70
DefaultScrollDistance == 70

\* null: the empty singleton slot, the unset timer handle (object ids and
\* timer handles count from 1)
Null == 0
\* An optional value (an argument or a field that may be undefined, a number
\* that may be NaN) is a sequence of length at most one.
Undefined == <<>>
NaN == <<>>
Some(x) == <<x>>
Get(opt) == opt[1]

(***************************************************************************)
(* JavaScript numbers.                                                     *)
(***************************************************************************)
\* floor(num / den) for any den # 0
FloorDiv(num, den) ==
  IF den > 0 THEN num \div den ELSE (0 - num) \div (0 - den)

\* rounding with ties away from zero: floor(x + 1/2) for x >= 0 and
\* -floor(-x + 1/2) for x < 0
MathRoundHalfAway(num, den) ==
  IF (num >= 0) = (den > 0)
    THEN FloorDiv(2 * num + den, 2 * den)
    ELSE 0 - FloorDiv(den - 2 * num, 2 * den)

\* Math.round(x) = floor(x + 1/2), for the rational x = num / den
MathRound(num, den) ==
  FloorDiv(2 * num + den, 2 * den)

(***************************************************************************)
(* buildPropertyFunction: the closure it returns is the record of the      *)
(* values it closes over; fn applies it to a scroll position.              *)
(***************************************************************************)
buildPropertyFunction(from, to, over) ==
  [from |-> from, to |-> to, over |-> over]

\* the interpolation with "to" for "(to - from)"
InterpolateAbsolute(from, to, over, scrollPos) ==
  10 * MathRound(from * over + to * scrollPos, 10 * over)

\* Math.round((from + (to - from) * scrollPos / over) * 100) / 100
\* from and to count thousandths, so (raw * 100) is
\* (from * over + (to - from) * scrollPos) / (10 * over), and the result,
\* a whole number of hundredths, is 10 times the rounded value.
Interpolate(from, to, over, scrollPos) ==
  10 * MathRound(from * over + (to - from) * scrollPos, 10 * over)

\* Clamp with the lower test lost in the ascending branch
ClampAboveOnly(from, to, newValue) ==
  IF from < to
    THEN (IF newValue > to THEN to ELSE newValue)
    ELSE (IF newValue > from THEN from
          ELSE IF newValue < to THEN to ELSE newValue)

\* Clamp without the test of from < to: the tests of the ascending branch,
\* whatever the order of from and to
ClampAscending(from, to, newValue) ==
  IF newValue < from THEN from
  ELSE IF newValue > to THEN to ELSE newValue

\* Force newValue between from and to
Clamp(from, to, newValue) ==
  IF from < to
    THEN (IF newValue < from THEN from
          ELSE IF newValue > to THEN to ELSE newValue)
    ELSE (IF newValue > from THEN from
          ELSE IF newValue < to THEN to ELSE newValue)

fn(f, scrollPos) ==
  Clamp(f.from, f.to, Interpolate(f.from, f.to, f.over, scrollPos))

(***************************************************************************)
(* The document.  jQuery objects are sequences of elements.  The document  *)
(* is body > header > logo; the selector ".logo" matches logo, any other   *)
(* selector matches nothing.                                               *)
(*                                                                         *)
(* A CSS string is a sequence of tokens [name, num, unit]: "12.5px" is one *)
(* token with an empty name, the keyword "none" is one token with that     *)
(* name and no number, "rotate(90deg) scale(0.5) " is two named tokens.    *)
(***************************************************************************)
\* $(document.body)
DocumentBody == <<"body">>

\* number + unit, the string written for one property
CssNumber(num, unit) == <<[name |-> "", num |-> Some(num), unit |-> unit]>>
CssKeyword(word) == <<[name |-> word, num |-> NaN, unit |-> ""]>>

\* this.$element.find(selector): the descendants matching the selector
find(jq, selector) ==
  IF selector = ".logo" /\ Len(jq) > 0 /\ jq[1] \in {"body", "header"}
    THEN <<"logo">>
    ELSE <<>>

\* the value the style sheet gives a property of an element, as the string
\* $element.css(property) returns it
StyleSheet(el, property) ==
  IF el = "header" /\ property = "padding-top" THEN CssNumber(10000, "px")
  ELSE IF property = "opacity" THEN CssNumber(1000, "")
  ELSE CssKeyword("none")

\* $element.css(property): the style of the first element of the set (an
\* inline style written earlier wins over the style sheet); undefined for
\* an empty set
cssRead(styles, jq, property) ==
  IF Len(jq) = 0 THEN Undefined
  ELSE IF <<jq[1], property>> \in DOMAIN styles
    THEN styles[<<jq[1], property>>]
    ELSE StyleSheet(jq[1], property)

\* parseFloat: the leading number of the string, NaN when there is none
parseFloat(str) ==
  IF Len(str) = 0 THEN NaN
  ELSE IF str[1].name = "" THEN str[1].num ELSE NaN

\* $element.css(property, value): an inline style on every element of the set
cssWrite(styles, jq, property, value) ==
  LET keys == {<<jq[k], property>> : k \in 1..Len(jq)}
  IN  [key \in DOMAIN styles \cup keys |->
         IF key \in keys THEN value ELSE styles[key]]

(***************************************************************************)
(* ScrollBinder: the animation tree built at construction.                 *)
(* An "animations" object is a sequence of [selector, properties] in key   *)
(* order; a tween is a record [from, to, over, unit] of optional values.   *)
(***************************************************************************)
transforms ==
  <<"scale", "scaleX", "scaleY", "rotate", "rotateX", "rotateY", "rotateZ",
    "translateX", "translateY">>

\* $.inArray(property, this.transforms) !== -1
isTransform(property) ==
  \E k \in 1..Len(transforms) : transforms[k] = property

\* the unit with a test of truth for the test of the type
\* (value.unit || (isTransform ? '' : 'px')): the empty string counts as
\* not given
initUnitTruthy(property, value) ==
  IF value.unit # Undefined /\ Get(value.unit) # "" THEN Get(value.unit)
  ELSE IF isTransform(property) THEN "" ELSE "px"

\* typeof value.unit === 'string' ? value.unit : (isTransform ? '' : 'px')
initUnit(property, value) ==
  IF value.unit # Undefined THEN Get(value.unit)
  ELSE IF isTransform(property) THEN "" ELSE "px"

\* from / to: the given number, or the element's current style, or 0
inherit(given, styles, jq, property) ==
  IF given # Undefined THEN Get(given)
  ELSE LET parsed == parseFloat(cssRead(styles, jq, property))
       IN  IF parsed = NaN THEN 0 ELSE Get(parsed)

\* x || fallback, for an optional number x (undefined and 0 are falsy)
OrElse(x, fallback) ==
  IF x = Undefined THEN fallback
  ELSE IF Get(x) = 0 THEN fallback ELSE Get(x)

initProperty(styles, scrollDistance, property, value, jq) ==
  [property    |-> property,
   fn          |-> buildPropertyFunction(inherit(value.from, styles, jq, property),
                                         inherit(value.to, styles, jq, property),
                                         OrElse(value.over, scrollDistance)),
   isTransform |-> isTransform(property),
   unit        |-> initUnit(property, value)]

initSelector(styles, element, scrollDistance, selector, properties) ==
  LET jq == IF selector = "this" THEN element ELSE find(element, selector)
  IN  [selector   |-> selector,
       init       |-> TRUE,
       element    |-> jq,
       properties |-> [k \in 1..Len(properties) |->
                         initProperty(styles, scrollDistance,
                                      properties[k].property,
                                      properties[k].value, jq)]]

initAnimations(styles, element, scrollDistance, animations) ==
  [k \in 1..Len(animations) |->
     initSelector(styles, element, scrollDistance,
                  animations[k].selector, animations[k].properties)]

\* new ScrollBinder($element, options), before bind()
ScrollBinder(styles, element, options) ==
  LET el   == IF element = Undefined THEN DocumentBody ELSE Get(element)
      opts == IF options = Undefined
                THEN [over |-> Undefined, animations |-> Undefined]
                ELSE Get(options)
      dist == OrElse(opts.over, DefaultScrollDistance)
      anim == IF opts.animations = Undefined THEN <<>> ELSE Get(opts.animations)
  IN  [element        |-> el,
       scrollDistance |-> dist,
       animations     |-> initAnimations(styles, el, dist, anim),
       scrollFlag     |-> TRUE,
       scrollEnd      |-> Null]

(***************************************************************************)
(* State.                                                                  *)
(***************************************************************************)
VARIABLES
  instance,   \* module.instance: Null or the id of a ScrollBinder object
  objs,       \* the ScrollBinder objects alive, by id
  listeners,  \* the handlers bound to the window's scroll event, in order:
              \* the id of the object whose onScroll each one proxies
  timers,     \* the pending setTimeout timers: [id, kind, self, rem], rem
              \* the ms left before the timer fires
  frames,     \* the frame callbacks requested and not yet run, oldest
              \* first: [self, scrollPos, rem]
  scrollTop,  \* $(window).scrollTop()
  styles,     \* the inline styles written so far: <<element, property>> to
              \* CSS string
  ret,        \* what exports.init returned, when the last step was a call
              \* of it (Null otherwise)
  obs,        \* observation only, per object: n, the animate calls made
              \* since its last accepted scroll event (that one included);
              \* last, the scroll position of its last animate call; and
              \* the ms since its last accepted scroll event (sinceScroll)
              \* and since its last acceptance of any kind, trailing
              \* re-invocations included (sinceAny)
  probe,      \* a property function under test, with the last scroll
              \* position it was applied to, the value of newValue after
              \* the rounding (rounded), the value it returned, and the
              \* position and the value of the call before (prev)
  built       \* the number of ScrollBinder objects constructed so far

vars == <<instance, objs, listeners, timers, frames, scrollTop, styles, ret, obs, probe, built>>

\* the inputs of the model
ScrollPositions == {0, 100}

Tween(from, to, over, unit) ==
  [from |-> from, to |-> to, over |-> over, unit |-> unit]

\* options after the README's example: a header whose padding grows and
\* whose opacity stays what the style sheet says, and a logo that turns and
\* shrinks, over the first 200 pixels
HeaderOptions ==
  [over |-> Some(200),
   animations |-> Some(<<
     [selector |-> "this", properties |-> <<
        [property |-> "padding-top",
         value |-> Tween(Some(10000), Some(20000), Undefined, Undefined)],
        [property |-> "opacity",
         value |-> Tween(Undefined, Undefined, Undefined, Some(""))]>>],
     [selector |-> ".logo", properties |-> <<
        [property |-> "rotate",
         value |-> Tween(Some(0), Some(90000), Some(100), Some("deg"))],
        [property |-> "scale",
         value |-> Tween(Some(1000), Some(500), Undefined, Undefined)]>>]>>)]

\* the arguments of exports.init: none at all, or the header and its options
InitArgs ==
  {[element |-> Undefined, options |-> Undefined],
   [element |-> Some(<<"header">>), options |-> Some(HeaderOptions)]}

\* the observation of an object that has accepted nothing yet
NoObs == [n |-> 0, last |-> Undefined, sinceScroll |-> TrailingDelay + 1, sinceAny |-> ThrottleDelay + 1]

\* no property function under test
NoProbe == <<>>

\* The part of the state a scroll handler works on, threaded through the
\* handler's statements as one record.
Heap == [objs |-> objs, timers |-> timers, frames |-> frames, obs |-> obs]

(***************************************************************************)
(* Timers.                                                                 *)
(***************************************************************************)
TimerIds == 1..(3 * (MaxInst + 1))

\* the handle setTimeout returns: a new one, that is, one that names no
\* pending timer and that no object holds in scrollEnd; the scrollEnd of
\* the object `assigned` does not count, being the field the handle is
\* assigned to (Null when the handle is dropped)
NewHandle(st, assigned) ==
  LET used == {t.id : t \in st.timers}
                \cup {st.objs[i].scrollEnd : i \in DOMAIN st.objs \ {assigned}}
  IN  CHOOSE h \in TimerIds \ used : \A g \in TimerIds \ used : h <= g

\* setTimeout(callback, delay), returning the handle h; callback is one of
\* the two closures of onScroll: kind "scrollFlag" (self.scrollFlag = true)
\* or "scrollEnd" (self.onScroll(e, true))
setTimeout(st, h, kind, self, delay) ==
  [st EXCEPT !.timers = @ \cup {[id |-> h, kind |-> kind, self |-> self, rem |-> delay]}]

\* clearTimeout(handle): null and the handles of fired timers name nothing
clearTimeout(st, handle) ==
  [st EXCEPT !.timers = {t \in @ : t.id # handle}]

(***************************************************************************)
(* animate and onScroll.                                                   *)
(***************************************************************************)
\* this.requestFrame.call(window, function () { ... }): the callback, with
\* the self and scrollPos it closes over, joins the frames to run
animate(st, self, scrollPos) ==
  [st EXCEPT !.frames = Append(@, [self |-> self, scrollPos |-> scrollPos, rem |-> FrameDelay]),
             !.obs[self].n = @ + 1,
             !.obs[self].last = Some(scrollPos),
             !.obs[self].sinceAny = 0]

\* if (this.scrollFlag === false) return;
Throttled(o) == o.scrollFlag = FALSE

\* Accept without "this.scrollFlag = false"
AcceptKeepsFlag(st, self, top, fromScrollEnd) ==
  LET s0 == IF fromScrollEnd THEN st
            ELSE [st EXCEPT !.obs[self].n = 0, !.obs[self].sinceScroll = 0]
      s1 == clearTimeout(s0, s0.objs[self].scrollEnd)
      s3 == animate(s1, self, top)
      s4 == setTimeout(s3, NewHandle(s3, Null), "scrollFlag", self, ThrottleDelay)
      h  == NewHandle(s4, self)
  IN  IF ~fromScrollEnd
        THEN [setTimeout(s4, h, "scrollEnd", self, TrailingDelay)
                EXCEPT !.objs[self].scrollEnd = h]
        ELSE s4

\* Accept without the test of fromScrollEnd: the trailing re-invocation
\* arms a trailing timer of its own
AcceptRearms(st, self, top, fromScrollEnd) ==
  LET s0 == IF fromScrollEnd THEN st
            ELSE [st EXCEPT !.obs[self].n = 0, !.obs[self].sinceScroll = 0]
      s1 == clearTimeout(s0, s0.objs[self].scrollEnd)
      s2 == [s1 EXCEPT !.objs[self].scrollFlag = FALSE]
      s3 == animate(s2, self, top)
      s4 == setTimeout(s3, NewHandle(s3, Null), "scrollFlag", self, ThrottleDelay)
      h  == NewHandle(s4, self)
  IN  [setTimeout(s4, h, "scrollEnd", self, TrailingDelay)
         EXCEPT !.objs[self].scrollEnd = h]

\* Accept without "clearTimeout(self.scrollEnd)"
AcceptNoClear(st, self, top, fromScrollEnd) ==
  LET s0 == IF fromScrollEnd THEN st
            ELSE [st EXCEPT !.obs[self].n = 0, !.obs[self].sinceScroll = 0]
      s2 == [s0 EXCEPT !.objs[self].scrollFlag = FALSE]
      s3 == animate(s2, self, top)
      s4 == setTimeout(s3, NewHandle(s3, Null), "scrollFlag", self, ThrottleDelay)
      h  == NewHandle(s4, self)
  IN  IF ~fromScrollEnd
        THEN [setTimeout(s4, h, "scrollEnd", self, TrailingDelay)
                EXCEPT !.objs[self].scrollEnd = h]
        ELSE s4

\* Accept whose trailing re-invocation arms no 16ms timer (the setTimeout
\* of scrollFlag moved inside "if (!fromScrollEnd)")
AcceptNoFlagTimer(st, self, top, fromScrollEnd) ==
  LET s0 == IF fromScrollEnd THEN st
            ELSE [st EXCEPT !.obs[self].n = 0, !.obs[self].sinceScroll = 0]
      s1 == clearTimeout(s0, s0.objs[self].scrollEnd)
      s2 == [s1 EXCEPT !.objs[self].scrollFlag = FALSE]
      s3 == animate(s2, self, top)
      s4 == setTimeout(s3, NewHandle(s3, Null), "scrollFlag", self, ThrottleDelay)
      h  == NewHandle(s4, self)
  IN  IF ~fromScrollEnd
        THEN [setTimeout(s4, h, "scrollEnd", self, TrailingDelay)
                EXCEPT !.objs[self].scrollEnd = h]
        ELSE s3

\* the statements of onScroll after the throttle test
Accept(st, self, top, fromScrollEnd) ==
  LET s0 == IF fromScrollEnd THEN st
            ELSE [st EXCEPT !.obs[self].n = 0, !.obs[self].sinceScroll = 0]
      s1 == clearTimeout(s0, s0.objs[self].scrollEnd)
      s2 == [s1 EXCEPT !.objs[self].scrollFlag = FALSE]
      s3 == animate(s2, self, top)
      s4 == setTimeout(s3, NewHandle(s3, Null), "scrollFlag", self, ThrottleDelay)
      h  == NewHandle(s4, self)
  IN  IF ~fromScrollEnd
        THEN [setTimeout(s4, h, "scrollEnd", self, TrailingDelay)
                EXCEPT !.objs[self].scrollEnd = h]
        ELSE s4

\* onScroll with clearTimeout and the trailing setTimeout moved above the
\* throttle test: a dropped event puts the trailing timer off
onScrollDebounced(st, self, top, fromScrollEnd) ==
  IF Throttled(st.objs[self])
    THEN IF fromScrollEnd THEN st
         ELSE LET s1 == clearTimeout(st, st.objs[self].scrollEnd)
                  h  == NewHandle(s1, self)
              IN  [setTimeout(s1, h, "scrollEnd", self, TrailingDelay)
                     EXCEPT !.objs[self].scrollEnd = h]
    ELSE Accept(st, self, top, fromScrollEnd)

\* ScrollBinder.prototype.onScroll(e, fromScrollEnd); top is what
\* $(window).scrollTop() returns when the handler runs
onScroll(st, self, top, fromScrollEnd) ==
  IF Throttled(st.objs[self]) THEN st ELSE Accept(st, self, top, fromScrollEnd)

\* the window's scroll event: jQuery calls the bound handlers in order
RECURSIVE Dispatch(_, _, _)
Dispatch(st, ls, top) ==
  IF ls = <<>> THEN st
  ELSE Dispatch(onScroll(st, Head(ls), top, FALSE), Tail(ls), top)

(***************************************************************************)
(* The frame callback of animate.                                          *)
(***************************************************************************)
\* value.fn(scrollPos) + value.unit
PropertyValue(value, scrollPos) ==
  CssNumber(fn(value.fn, scrollPos), value.unit)

\* the loop over animation.properties: the first k properties done; the
\* properties that are not transforms are written one by one
RECURSIVE WriteProperties(_, _, _, _)
WriteProperties(st, animation, scrollPos, k) ==
  IF k = 0 THEN st
  ELSE LET value == animation.properties[k]
           done  == WriteProperties(st, animation, scrollPos, k - 1)
       IN  IF value.isTransform THEN done
           ELSE cssWrite(done, animation.element, value.property, PropertyValue(value, scrollPos))

\* transformString built by putting each transform before the ones already
\* there (transformString = ... + transformString): the order is reversed
TransformStringReversed(animation, scrollPos) ==
  LET stack == SelectSeq(animation.properties, LAMBDA value : value.isTransform)
  IN  [k \in 1..Len(stack) |->
         [name |-> stack[Len(stack) + 1 - k].property,
          num  |-> Some(fn(stack[Len(stack) + 1 - k].fn, scrollPos)),
          unit |-> stack[Len(stack) + 1 - k].unit]]

\* transformString: transformProperty + '(' + transformStack[...] + ') ' for
\* the transforms of the selector, in the order they were declared
TransformString(animation, scrollPos) ==
  LET stack == SelectSeq(animation.properties, LAMBDA value : value.isTransform)
  IN  [k \in 1..Len(stack) |->
         [name |-> stack[k].property,
          num  |-> Some(fn(stack[k].fn, scrollPos)),
          unit |-> stack[k].unit]]

\* animation.$element.css({'-webkit-transform': ..., '-ms-transform': ..., 'transform': ...})
WriteTransform(st, jq, transformString) ==
  cssWrite(cssWrite(cssWrite(st, jq, "-webkit-transform", transformString),
                    jq, "-ms-transform", transformString),
           jq, "transform", transformString)

\* the body of the loop over self.animations, for one selector
AnimateSelector(st, animation, scrollPos) ==
  LET written == WriteProperties(st, animation, scrollPos, Len(animation.properties))
      transformString == TransformString(animation, scrollPos)
  IN  IF transformString # <<>>
        THEN WriteTransform(written, animation.element, transformString)
        ELSE written

\* the callback animate hands to requestFrame, run on the first k selectors
RECURSIVE FrameCallback(_, _, _, _)
FrameCallback(st, animations, scrollPos, k) ==
  IF k = 0 THEN st
  ELSE AnimateSelector(FrameCallback(st, animations, scrollPos, k - 1), animations[k], scrollPos)

(***************************************************************************)
(* The module API.                                                         *)
(***************************************************************************)
\* $(window).on('scroll.' + module.instanceKey, $.proxy(this.onScroll, this))
bind(ls, self) == Append(ls, self)

\* $(window).off('scroll.' + module.instanceKey): every handler of the
\* namespace goes (module.instanceKey is undefined for every object, so
\* all objects share the namespace "scroll.undefined")
unbind(ls, self) == <<>>

\* ScrollBinder.prototype.reset: return this
reset(st, self) == st

\* An object that is not in the slot, has no handler bound and has no timer
\* or frame callback to run is referred to by nothing that runs again: it
\* takes no further part and leaves objs (its id is free again).
Collect(st, slot, ls) ==
  LET live == {i \in DOMAIN st.objs :
                 \/ i = slot
                 \/ \E k \in 1..Len(ls) : ls[k] = i
                 \/ \E t \in st.timers : t.self = i
                 \/ \E k \in 1..Len(st.frames) : st.frames[k].self = i}
  IN  [st EXCEPT !.objs = [i \in live |-> st.objs[i]],
                 !.obs = [i \in live |-> st.obs[i]]]

\* module.instance = new ScrollBinder($element, options)
Construct(element, options) ==
  LET free == (1..(MaxInst + 1)) \ DOMAIN objs
      self == CHOOSE i \in free : \A j \in free : i <= j
  IN  /\ Cardinality(DOMAIN objs \ {instance}) < MaxInst
      /\ built < MaxBuilt
      /\ built' = built + 1
      /\ objs' = (objs @@ (self :> ScrollBinder(styles, element, options)))
      /\ obs' = (obs @@ (self :> NoObs))
      /\ listeners' = bind(listeners, self)
      /\ instance' = self
      /\ ret' = self
      /\ UNCHANGED <<timers, frames, scrollTop, styles, probe>>

\* exports.init without the test of module.instance
initAlways(element, options) ==
  Construct(element, options)

\* exports.init
init(element, options) ==
  IF instance = Null
    THEN Construct(element, options)
    ELSE /\ ret' = instance
         /\ UNCHANGED <<instance, objs, listeners, timers, frames, scrollTop, styles, obs, probe, built>>

\* exports.destroy
destroy ==
  IF instance = Null
    THEN UNCHANGED vars
    ELSE LET st == Collect(reset(Heap, instance), Null, unbind(listeners, instance))
         IN  /\ objs' = st.objs
             /\ timers' = st.timers
             /\ frames' = st.frames
             /\ obs' = st.obs
             /\ listeners' = unbind(listeners, instance)
             /\ instance' = Null
             /\ ret' = Null
             /\ UNCHANGED <<scrollTop, styles, probe, built>>

(***************************************************************************)
(* The environment: the window scrolls, timers fire, frames run, time      *)
(* passes.                                                                 *)
(***************************************************************************)
\* the window scrolls to p and the scroll event is dispatched
Scroll(p) ==
  LET st == Dispatch(Heap, listeners, p)
  IN  /\ scrollTop' = p
      /\ objs' = st.objs
      /\ timers' = st.timers
      /\ frames' = st.frames
      /\ obs' = st.obs
      /\ ret' = Null
      /\ UNCHANGED <<instance, listeners, styles, probe, built>>

\* the 16ms callback with a comparison for the assignment
\* (self.scrollFlag == true): the flag is left as it is
ScrollFlagTimeoutLost(st, self) ==
  st

\* function () { self.scrollFlag = true; }
ScrollFlagTimeout(st, self) ==
  [st EXCEPT !.objs[self].scrollFlag = TRUE]

\* function () { self.onScroll(e, true); }
ScrollEndTimeout(st, self, top) ==
  onScroll(st, self, top, TRUE)

\* a timer whose delay has elapsed fires
FireTimer(t) ==
  /\ t \in timers
  /\ t.rem = 0
  /\ LET fired == [Heap EXCEPT !.timers = @ \ {t}]
         ran == IF t.kind = "scrollFlag"
                  THEN ScrollFlagTimeout(fired, t.self)
                  ELSE ScrollEndTimeout(fired, t.self, scrollTop)
         st == Collect(ran, instance, listeners)
     IN  /\ objs' = st.objs
         /\ timers' = st.timers
         /\ frames' = st.frames
         /\ obs' = st.obs
  /\ ret' = Null
  /\ UNCHANGED <<instance, listeners, scrollTop, styles, probe, built>>

\* the frame callbacks as a stack: the newest one runs
RunFrameNewest ==
  /\ frames # <<>>
  /\ LET f == frames[Len(frames)]
         st == Collect([Heap EXCEPT !.frames = SubSeq(frames, 1, Len(frames) - 1)], instance, listeners)
     IN  /\ styles' = FrameCallback(styles, objs[f.self].animations, f.scrollPos, Len(objs[f.self].animations))
         /\ frames' = st.frames
         /\ objs' = st.objs
         /\ obs' = st.obs
  /\ ret' = Null
  /\ UNCHANGED <<instance, listeners, timers, scrollTop, probe, built>>

\* the oldest frame callback runs
RunFrame ==
  /\ frames # <<>>
  /\ LET f == Head(frames)
         st == Collect([Heap EXCEPT !.frames = Tail(frames)], instance, listeners)
     IN  /\ styles' = FrameCallback(styles, objs[f.self].animations, f.scrollPos, Len(objs[f.self].animations))
         /\ frames' = st.frames
         /\ objs' = st.objs
         /\ obs' = st.obs
  /\ ret' = Null
  /\ UNCHANGED <<instance, listeners, timers, scrollTop, probe, built>>

\* the ms left of everything pending
Pending == {t.rem : t \in timers} \cup {frames[k].rem : k \in 1..Len(frames)}

\* time passes: Tick ms, or less when something falls due sooner
Advance ==
  /\ \A r \in Pending : r > 0
  /\ LET d == CHOOSE d \in 1..Tick : /\ \A r \in Pending : d <= r
                                     /\ (d = Tick \/ d \in Pending)
     IN  /\ timers' = {[t EXCEPT !.rem = @ - d] : t \in timers}
         /\ frames' = [k \in 1..Len(frames) |-> [frames[k] EXCEPT !.rem = @ - d]]
         /\ obs' = [i \in DOMAIN obs |->
                      [obs[i] EXCEPT !.sinceScroll = IF @ + d > TrailingDelay THEN TrailingDelay + 1 ELSE @ + d,
                                     !.sinceAny = IF @ + d > ThrottleDelay THEN ThrottleDelay + 1 ELSE @ + d]]
  /\ ret' = Null
  /\ UNCHANGED <<instance, objs, listeners, scrollTop, styles, probe, built>>

Init ==
  /\ instance = Null
  /\ objs = <<>>
  /\ listeners = <<>>
  /\ timers = {}
  /\ frames = <<>>
  /\ scrollTop = 0
  /\ styles = <<>>
  /\ ret = Null
  /\ obs = <<>>
  /\ probe = NoProbe
  /\ built = 0

Next ==
  \/ \E args \in InitArgs : init(args.element, args.options)
  \/ destroy
  \/ \E p \in ScrollPositions : Scroll(p)
  \/ \E t \in timers : FireTimer(t)
  \/ RunFrame
  \/ Advance

Spec == Init /\ [][Next]_vars

(***************************************************************************)
(* Progress: one instance, which is never destroyed.  The browser runs a   *)
(* timer whose delay has elapsed and a frame callback that was requested,  *)
(* and time passes.                                                        *)
(***************************************************************************)
NextLive ==
  \/ \E args \in InitArgs : init(args.element, args.options)
  \/ \E p \in ScrollPositions : Scroll(p)
  \/ \E t \in timers : FireTimer(t)
  \/ RunFrame
  \/ Advance

SpecLive ==
  /\ Init
  /\ [][NextLive]_vars
  /\ WF_vars(\E t \in timers : FireTimer(t))
  /\ WF_vars(RunFrame)
  /\ WF_vars(Advance)

(***************************************************************************)
(* Failing frame callbacks: one instance, which is never destroyed, and   *)
(* whose frame callbacks may throw.                                        *)
(***************************************************************************)
\* a failure inside animate itself, as if the styles were written in the
\* scroll handler: the exception leaves onScroll before its setTimeout
\* calls, so the timers of that acceptance are never armed
FrameThrowsInHandler ==
  /\ frames # <<>>
  /\ LET f == Head(frames)
         animations == objs[f.self].animations
         st == Collect([Heap EXCEPT !.frames = Tail(frames),
                                    !.timers = {t \in @ : t.self # f.self}],
                       instance, listeners)
     IN  /\ \E k \in 0..(Len(animations) - 1) :
              styles' = FrameCallback(styles, animations, f.scrollPos, k)
         /\ frames' = st.frames
         /\ timers' = st.timers
         /\ objs' = st.objs
         /\ obs' = st.obs
  /\ ret' = Null
  /\ UNCHANGED <<instance, listeners, scrollTop, probe, built>>

\* the oldest frame callback runs and throws while it works on one of its
\* selectors: the selectors before that one are done, the rest is not
FrameThrows ==
  /\ frames # <<>>
  /\ LET f == Head(frames)
         animations == objs[f.self].animations
         st == Collect([Heap EXCEPT !.frames = Tail(frames)], instance, listeners)
     IN  /\ \E k \in 0..(Len(animations) - 1) :
              styles' = FrameCallback(styles, animations, f.scrollPos, k)
         /\ frames' = st.frames
         /\ objs' = st.objs
         /\ obs' = st.obs
  /\ ret' = Null
  /\ UNCHANGED <<instance, listeners, timers, scrollTop, probe, built>>

NextFail ==
  \/ \E args \in InitArgs : init(args.element, args.options)
  \/ \E p \in ScrollPositions : Scroll(p)
  \/ \E t \in timers : FireTimer(t)
  \/ RunFrame
  \/ FrameThrows
  \/ Advance

SpecFail == Init /\ [][NextFail]_vars

(***************************************************************************)
(* Construction on its own: exports.init is called with options that vary  *)
(* the global over, and the over and the unit of one tween of one          *)
(* property of the element itself: not given, zero, negative, positive;    *)
(* not given, empty, "%"; a property that is no transform, a transform of  *)
(* the list, a transform function that is not on the list.                 *)
(***************************************************************************)
ConfigOvers == {Undefined, Some(0), Some(-5), Some(200)}
ConfigTweenOvers == {Undefined, Some(0), Some(-5), Some(100)}
ConfigUnits == {Undefined, Some(""), Some("%")}
ConfigProperties == {"padding-top", "scale", "skewX"}

ConfigOptions(over, property, tweenOver, unit) ==
  [over |-> over,
   animations |-> Some(<<
     [selector |-> "this", properties |-> <<
        [property |-> property,
         value |-> Tween(Some(0), Some(1000), tweenOver, unit)]>>]>>)]

ConfigArgs ==
  {[element |-> Some(<<"header">>),
    options |-> Some(ConfigOptions(over, property, tweenOver, unit))] :
     over \in ConfigOvers, property \in ConfigProperties,
     tweenOver \in ConfigTweenOvers, unit \in ConfigUnits}

NextConfig ==
  \/ \E args \in ConfigArgs : init(args.element, args.options)
  \/ destroy

SpecConfig == Init /\ [][NextConfig]_vars

(***************************************************************************)
(* The property function on its own: a function is built from bounded      *)
(* inputs and applied to scroll positions inside and outside [0, over].    *)
(***************************************************************************)
\* from and to, in thousandths: negative, zero, below one hundredth, on a
\* half hundredth, whole
ProbeValues == {-55000, -10000, -125, 0, 5, 125, 1000, 20000}
ProbeOvers == {1, 3, 70, 200}
ProbePositions == {-50, 0, 1, 35, 70, 100, 200, 300}

InitProbe ==
  /\ instance = Null
  /\ objs = <<>>
  /\ listeners = <<>>
  /\ timers = {}
  /\ frames = <<>>
  /\ scrollTop = 0
  /\ styles = <<>>
  /\ ret = Null
  /\ obs = <<>>
  /\ built = 0
  /\ \E from \in ProbeValues, to \in ProbeValues, over \in ProbeOvers :
       probe = <<[fn |-> buildPropertyFunction(from, to, over), scrollPos |-> 0,
                  rounded |-> NaN, value |-> NaN, prev |-> <<>>]>>

\* the property function is called with a scroll position
ApplyProbe(scrollPos) ==
  /\ probe # NoProbe
  /\ probe' = <<[probe[1] EXCEPT
                   !.scrollPos = scrollPos,
                   !.rounded = Some(Interpolate(probe[1].fn.from, probe[1].fn.to, probe[1].fn.over, scrollPos)),
                   !.value = Some(fn(probe[1].fn, scrollPos)),
                   !.prev = IF probe[1].value = NaN THEN <<>>
                            ELSE <<[scrollPos |-> probe[1].scrollPos, value |-> Get(probe[1].value)]>>]>>
  /\ UNCHANGED <<instance, objs, listeners, timers, frames, scrollTop, styles, ret, obs, built>>

NextProbe == \E scrollPos \in ProbePositions : ApplyProbe(scrollPos)

SpecProbe == InitProbe /\ [][NextProbe]_vars

(***************************************************************************)
(* Properties.                                                             *)
(***************************************************************************)
\* the object i has a handler bound to the scroll event
Bound(i) == \E k \in 1..Len(listeners) : listeners[k] = i

\* the pending timers of the object i, and its pending trailing timers
TimersOf(i) == {t \in timers : t.self = i}
TrailingTimersOf(i) == {t \in timers : t.self = i /\ t.kind = "scrollEnd"}

\* the step is an accepted scroll event or trailing re-invocation of the
\* object i at the scroll position p: one animate call with p
AcceptedNow(i, p) ==
  /\ obs'[i].sinceAny = 0
  /\ obs'[i].last = Some(p)
  /\ frames' = Append(frames, [self |-> i, scrollPos |-> p, rem |-> FrameDelay])

\* C1 (as claimed): for a bound Binding that has received scroll events,
\* once all its timers have fired the last position passed to animate is
\* the scroll position the window has.
C1_TrailingUpdate ==
  \A i \in DOMAIN objs :
    (Bound(i) /\ obs[i].last # Undefined /\ TimersOf(i) = {})
      => obs[i].last = Some(scrollTop)

\* C2 (as claimed): when a trailing timer of a destroyed Binding (one that
\* is no longer in the singleton slot) fires, no animate call is made and no
\* frame callback is requested, so no style is written on its account.
C2_DestroyedTimerInert ==
  [][\A t \in timers :
       (t.kind = "scrollEnd" /\ t.self # instance /\ FireTimer(t))
         => (frames' = frames /\ obs'[t.self].n = obs[t.self].n)]_vars

\* C3 (as claimed): in the state right after destroy() returns, the
\* destroyed Binding has no pending timer.
C3_DestroyCancelsTimers ==
  [][(instance # Null /\ destroy) => {t \in timers' : t.self = instance} = {}]_vars

\* C4: a scroll event that reaches a Binding whose scrollFlag is true sets
\* scrollFlag to false and makes exactly one animate call, with the scroll
\* position of that event.
C4_IdleAccepts ==
  [][\A p \in ScrollPositions : \A i \in DOMAIN objs :
       (Scroll(p) /\ Bound(i) /\ objs[i].scrollFlag = TRUE)
         => (/\ objs'[i].scrollFlag = FALSE
             /\ obs'[i].n = 1
             /\ AcceptedNow(i, p))]_vars

\* C4 witness: a bound Binding has just accepted a scroll event to 100: it is
\* throttled, with one animate call, for position 100, and its frame queued
C4_Witness ==
  \E i \in DOMAIN objs :
    /\ Bound(i)
    /\ objs[i].scrollFlag = FALSE
    /\ obs[i].n = 1
    /\ obs[i].sinceScroll = 0
    /\ obs[i].last = Some(100)
    /\ scrollTop = 100
    /\ \E k \in 1..Len(frames) : frames[k].self = i /\ frames[k].scrollPos = 100

\* C5: a scroll event that reaches a Binding whose scrollFlag is false
\* changes nothing but the window's scroll position: no animate call, no
\* frame, the timers as they were (none cancelled, armed or put off), the
\* flag still false.
C5_ThrottledDrops ==
  [][\A p \in ScrollPositions :
       (Scroll(p) /\ \A k \in 1..Len(listeners) : objs[listeners[k]].scrollFlag = FALSE)
         => UNCHANGED <<instance, objs, listeners, timers, frames, styles, obs, built>>]_vars

\* C5 witness: the window has moved away from the position of the last
\* animate call of a bound, throttled Binding whose trailing timer is
\* pending: the event that moved it was dropped
C5_Witness ==
  \E i \in DOMAIN objs :
    /\ Bound(i)
    /\ objs[i].scrollFlag = FALSE
    /\ obs[i].n = 1
    /\ obs[i].last # Undefined
    /\ obs[i].last # Some(scrollTop)
    /\ \E t \in TrailingTimersOf(i) : t.rem < TrailingDelay

\* C6: counted from the last accepted scroll event of a Binding: exactly one
\* animate call is made at once; while fewer than 64ms have passed it stays
\* the only one and the trailing timer is due exactly 64ms after that event
\* (a dropped event neither adds a call nor puts the timer off); the second
\* call is the trailing one, made at 64ms with the window's position; and
\* after it there are two calls, no trailing timer, and never a third.
C6_BurstInv ==
  \A i \in DOMAIN objs :
    obs[i].last # Undefined =>
      /\ obs[i].n \in {1, 2}
      /\ obs[i].sinceScroll < TrailingDelay => obs[i].n = 1
      /\ obs[i].n = 1 =>
           /\ Cardinality(TrailingTimersOf(i)) = 1
           /\ \A t \in TrailingTimersOf(i) : t.rem = TrailingDelay - obs[i].sinceScroll
      /\ obs[i].n = 2 => TrailingTimersOf(i) = {}

C6_BurstStep ==
  \A i \in DOMAIN objs \cap DOMAIN objs' :
    (obs[i].n = 1 /\ obs'[i].n = 2)
      => (obs[i].sinceScroll = TrailingDelay /\ AcceptedNow(i, scrollTop))

C6_Burst == [](C6_BurstInv) /\ [][C6_BurstStep]_vars

\* C6 witness: the only Binding there has been, built from the header's
\* options, has just made its trailing call, 64ms after its last accepted
\* event: the styles are those of position 0, where that event was accepted,
\* and the trailing frame carries position 100, to which an event dropped in
\* between had moved the window
C6_Witness ==
  /\ DOMAIN objs = {1}
  /\ objs[1].element = <<"header">>
  /\ obs[1].n = 2
  /\ obs[1].sinceScroll = TrailingDelay
  /\ frames = <<[self |-> 1, scrollPos |-> 100, rem |-> FrameDelay]>>
  /\ <<"header", "padding-top">> \in DOMAIN styles
  /\ styles[<<"header", "padding-top">>] = CssNumber(10000, "px")

\* C7 (as claimed): a scroll event that reaches a bound Binding more than
\* 16ms after its most recently accepted scroll event is accepted: it makes
\* an animate call with the scroll position of the event.
C7_AcceptedAfterWindow ==
  [][\A p \in ScrollPositions : \A i \in DOMAIN objs :
       (Scroll(p) /\ Bound(i) /\ obs[i].sinceScroll > ThrottleDelay)
         => AcceptedNow(i, p)]_vars

\* C7 (amended): a scroll event that reaches a bound Binding more than 16ms
\* after its most recent acceptance, of a scroll event or of a trailing
\* re-invocation, is accepted: it makes an animate call with the scroll
\* position of the event.
C7_AcceptedAfterAnyWindow ==
  [][\A p \in ScrollPositions : \A i \in DOMAIN objs :
       (Scroll(p) /\ Bound(i) /\ obs[i].sinceAny > ThrottleDelay)
         => AcceptedNow(i, p)]_vars

\* C7 witness: a bound Binding has made its trailing re-invocation, more
\* than 16ms have passed since, and it is Idle again: the state in which
\* the next scroll event is accepted
C7_Witness ==
  \E i \in DOMAIN objs :
    /\ Bound(i)
    /\ obs[i].n = 2
    /\ obs[i].sinceAny > ThrottleDelay
    /\ objs[i].scrollFlag = TRUE
    /\ TimersOf(i) = {}

\* C8: at most one handler is bound to the scroll event, and while the slot
\* holds an instance it is the bound one; every call of init returns the
\* instance the slot then holds; a call of init that finds an instance in
\* the slot returns that one, whatever its arguments, and leaves the slot,
\* the objects (no new one built) and the bound handlers as they are; and
\* no step changes the element, the scroll distance or the animations of an
\* object.
C8_SingletonInv ==
  /\ Len(listeners) <= 1
  /\ instance # Null => listeners = <<instance>>

C8_SingletonStep ==
  /\ \A args \in InitArgs :
       init(args.element, args.options)
         => (/\ instance' # Null
             /\ ret' = instance'
             /\ instance # Null => UNCHANGED <<instance, objs, listeners, built>>)
  /\ instance # Null => DOMAIN objs' \subseteq DOMAIN objs
  /\ \A i \in DOMAIN objs \cap DOMAIN objs' :
       /\ objs'[i].element = objs[i].element
       /\ objs'[i].scrollDistance = objs[i].scrollDistance
       /\ objs'[i].animations = objs[i].animations

C8_Singleton == [](C8_SingletonInv) /\ [][C8_SingletonStep]_vars

\* C8 witness: after an init, a destroy and an init without arguments, the
\* second instance has accepted a scroll event and made its trailing call;
\* then init was called again and returned that instance, which is still
\* the only bound one and still as it was built, without arguments
C8_Witness ==
  /\ instance # Null
  /\ ret = instance
  /\ built = 2
  /\ obs[instance].n = 2
  /\ objs[instance].element = DocumentBody
  /\ objs[instance].scrollDistance = DefaultScrollDistance
  /\ objs[instance].animations = <<>>
  /\ listeners = <<instance>>

\* C9 (as claimed): destroy with an active instance leaves that Binding
\* Idle and without a pending trailing timer, leaves no handler of it bound
\* to the scroll event, and empties the slot.
C9_DestroyResets ==
  [][(instance # Null /\ destroy)
       => (/\ instance \in DOMAIN objs' => objs'[instance].scrollFlag = TRUE
           /\ {t \in timers' : t.self = instance /\ t.kind = "scrollEnd"} = {}
           /\ \A k \in 1..Len(listeners') : listeners'[k] # instance
           /\ instance' = Null)]_vars

\* C10: the value a property function returns lies between from and to,
\* whichever is the smaller, at every scroll position, and it is from when
\* from and to are equal.
C10_WithinRange ==
  (probe # NoProbe /\ probe[1].value # NaN) =>
    LET f == probe[1].fn
        v == Get(probe[1].value)
        lo == IF f.from < f.to THEN f.from ELSE f.to
        hi == IF f.from < f.to THEN f.to ELSE f.from
    IN  /\ lo <= v
        /\ v <= hi
        /\ f.from = f.to => v = f.from

\* C10 witness: at a negative scroll position the rounded interpolation of a
\* rising function fell below from, and the function returned from
C10_Witness ==
  /\ probe # NoProbe
  /\ probe[1].value # NaN
  /\ probe[1].scrollPos < 0
  /\ probe[1].fn.from < probe[1].fn.to
  /\ Interpolate(probe[1].fn.from, probe[1].fn.to, probe[1].fn.over, probe[1].scrollPos) < probe[1].fn.from
  /\ probe[1].value = Some(probe[1].fn.from)

\* the property function under test has been called
Probed == probe # NoProbe /\ probe[1].value # NaN

\* C11: the property function returns from at scroll position 0 and to at
\* scroll position over, exactly when the value has at most two decimals
\* (a multiple of 10 thousandths) and to within half a hundredth otherwise.
C11_Endpoints ==
  Probed =>
    LET f == probe[1].fn
        v == Get(probe[1].value)
    IN  /\ probe[1].scrollPos = 0 =>
             /\ f.from % 10 = 0 => v = f.from
             /\ v - f.from <= 5 /\ f.from - v <= 5
        /\ probe[1].scrollPos = f.over =>
             /\ f.to % 10 = 0 => v = f.to
             /\ v - f.to <= 5 /\ f.to - v <= 5

\* C11 witness: a function between two different values of two decimals
\* was called at scroll position over and returned to
C11_Witness ==
  /\ Probed
  /\ probe[1].fn.from % 10 = 0
  /\ probe[1].fn.to % 10 = 0
  /\ probe[1].fn.from # probe[1].fn.to
  /\ probe[1].scrollPos = probe[1].fn.over
  /\ probe[1].value = Some(probe[1].fn.to)

\* C12: of two calls of a property function, the one at the greater scroll
\* position returns a value that is not smaller when to >= from, and not
\* greater when to < from, for positions inside and outside [0, over].
C12_Monotone ==
  (Probed /\ probe[1].prev # <<>>) =>
    LET f  == probe[1].fn
        p1 == probe[1].prev[1].scrollPos
        v1 == probe[1].prev[1].value
        p2 == probe[1].scrollPos
        v2 == Get(probe[1].value)
    IN  /\ (p1 < p2 /\ f.to >= f.from) => v1 <= v2
        /\ (p1 < p2 /\ f.to < f.from) => v1 >= v2
        /\ (p2 < p1 /\ f.to >= f.from) => v2 <= v1
        /\ (p2 < p1 /\ f.to < f.from) => v2 >= v1

\* C12 witness: a falling function was called below 0, where it returned
\* from, and then beyond over, where it returned the smaller to
C12_Witness ==
  /\ Probed
  /\ probe[1].prev # <<>>
  /\ probe[1].fn.to < probe[1].fn.from
  /\ probe[1].prev[1].scrollPos < 0
  /\ probe[1].prev[1].value = probe[1].fn.from
  /\ probe[1].scrollPos > probe[1].fn.over
  /\ probe[1].value = Some(probe[1].fn.to)

\* the raw value times 100 is RawNum / RawDen, RawDen > 0
RawNum == probe[1].fn.from * probe[1].fn.over
            + (probe[1].fn.to - probe[1].fn.from) * probe[1].scrollPos
RawDen == 10 * probe[1].fn.over

\* C13 (as claimed): newValue after the rounding is the hundredth nearest
\* to the raw value, a tie going away from zero: down when the raw value
\* is negative, up when it is positive.
C13_RoundsHalfAway ==
  Probed =>
    LET r == Get(probe[1].rounded) \div 10
    IN  /\ Get(probe[1].rounded) % 10 = 0
        /\ RawNum >= 0 => (/\ (2 * r - 1) * RawDen <= 2 * RawNum
                           /\ 2 * RawNum < (2 * r + 1) * RawDen)
        /\ RawNum < 0 => (/\ (2 * r - 1) * RawDen < 2 * RawNum
                          /\ 2 * RawNum <= (2 * r + 1) * RawDen)

\* C13 (amended): newValue after the rounding is the hundredth nearest to
\* the raw value, a tie going up (towards plus infinity), for negative raw
\* values as for positive ones.
C13_RoundsHalfUp ==
  Probed =>
    LET r == Get(probe[1].rounded) \div 10
    IN  /\ Get(probe[1].rounded) % 10 = 0
        /\ (2 * r - 1) * RawDen <= 2 * RawNum
        /\ 2 * RawNum < (2 * r + 1) * RawDen

\* C13 witness: the raw value -0.125 was rounded to -0.12
C13_Witness ==
  /\ Probed
  /\ 8 * RawNum = 0 - 100 * RawDen
  /\ probe[1].rounded = Some(-120)

\* the one tween of the options of ConfigArgs, and an over that is given
\* and not positive, in the options or in the tween
ConfigTween(args) == Get(Get(args.options).animations)[1].properties[1]
NotPositive(over) == over # Undefined /\ Get(over) <= 0
BadOver(args) ==
  \/ NotPositive(Get(args.options).over)
  \/ NotPositive(ConfigTween(args).value.over)

\* C14 (as claimed): a call of init with an empty slot and options whose
\* global over or tween over is zero or negative fails: the slot stays
\* empty, no object is kept, no scroll handler is bound.
C14_BadOverRejected ==
  [][\A args \in ConfigArgs :
       (instance = Null /\ BadOver(args) /\ init(args.element, args.options))
         => (instance' = Null /\ objs' = objs /\ listeners' = listeners)]_vars

\* the nine transform functions of the allow-list
NineTransforms ==
  {"scale", "scaleX", "scaleY", "rotate", "rotateX", "rotateY", "rotateZ",
   "translateX", "translateY"}

\* C15: the unit of a property of the object init constructs is the unit of
\* the tween when one is given, the empty string included; when none is
\* given it is the empty string for the nine transform functions of the
\* list and "px" for every other property.
C15_Units ==
  [][\A args \in ConfigArgs :
       (instance = Null /\ init(args.element, args.options))
         => LET tween == ConfigTween(args)
                resolved == objs'[instance'].animations[1].properties[1]
            IN  /\ resolved.property = tween.property
                /\ resolved.unit =
                     IF tween.value.unit # Undefined THEN Get(tween.value.unit)
                     ELSE IF tween.property \in NineTransforms THEN "" ELSE "px"]_vars

\* C15 witness: the active instance animates skewX, a transform function
\* that is not on the list, in "px": no options give that unit, it is the
\* default of a property that is no transform
C15_Witness ==
  /\ instance # Null
  /\ Len(objs[instance].animations) = 1
  /\ objs[instance].animations[1].properties[1].property = "skewX"
  /\ objs[instance].animations[1].properties[1].isTransform = FALSE
  /\ objs[instance].animations[1].properties[1].unit = "px"

\* the three style properties the composite transform string is written to
TransformKeys == {"-webkit-transform", "-ms-transform", "transform"}

\* the style of element e for property is what it was before the step
StyleUntouched(e, property) ==
  IF <<e, property>> \in DOMAIN styles
    THEN <<e, property>> \in DOMAIN styles' /\ styles'[<<e, property>>] = styles[<<e, property>>]
    ELSE <<e, property>> \notin DOMAIN styles'

PendingPositions(q, i) ==
  LET mine == SelectSeq(q, LAMBDA f : f.self = i)
  IN  [k \in 1..Len(mine) |-> mine[k].scrollPos]

\* C17: the frame callbacks of one object wait in the order of their
\* acceptances and run in that order: a step leaves them as they are, or
\* adds the callback of a new acceptance behind them all, or runs the
\* oldest of them, whose position is the one written; so a position is
\* never written after that of a later acceptance.
C17_FrameOrder ==
  [][\A i \in DOMAIN objs :
       LET q == PendingPositions(frames, i)
           r == PendingPositions(frames', i)
       IN  \/ r = q
           \/ /\ \E p \in ScrollPositions : r = Append(q, p)
              /\ obs'[i].last = Some(r[Len(r)])
              /\ styles' = styles
           \/ /\ q # <<>>
              /\ r = Tail(q)
              /\ frames[1].self = i
              /\ styles' = FrameCallback(styles, objs[i].animations, q[1], Len(objs[i].animations))]_vars

\* C17 witness: two frame callbacks of one bound object are pending, the
\* older one, due now, for position 0 and the newer one for position 100
C17_Witness ==
  \E i \in DOMAIN objs :
    /\ Bound(i)
    /\ objs[i].animations # <<>>
    /\ Len(frames) = 2
    /\ frames[1] = [self |-> i, scrollPos |-> 0, rem |-> 0]
    /\ frames[2] = [self |-> i, scrollPos |-> 100, rem |-> FrameDelay]

\* the pending 16ms timers of the object i
FlagTimersOf(i) == {t \in timers : t.self = i /\ t.kind = "scrollFlag"}

\* C18: where frame callbacks may throw: a throwing callback leaves the
\* timers, the objects and the bound handlers as they are; every object
\* whose scrollFlag is false has its 16ms timer pending; and a scroll event
\* that reaches a bound object whose scrollFlag is true is accepted and
\* arms the 16ms timer and the trailing timer.
C18_FailureInv ==
  \A i \in DOMAIN objs :
    objs[i].scrollFlag = FALSE => Cardinality(FlagTimersOf(i)) = 1

C18_FailureStep ==
  /\ FrameThrows =>
       /\ timers' = timers
       /\ listeners' = listeners
       /\ \A i \in DOMAIN objs' : objs'[i] = objs[i]
  /\ \A p \in ScrollPositions : \A i \in DOMAIN objs :
       (Scroll(p) /\ Bound(i) /\ objs[i].scrollFlag = TRUE)
         => /\ AcceptedNow(i, p)
            /\ \E t \in timers' \ timers :
                 t.self = i /\ t.kind = "scrollFlag" /\ t.rem = ThrottleDelay
            /\ \E t \in timers' \ timers :
                 /\ t.self = i /\ t.kind = "scrollEnd" /\ t.rem = TrailingDelay
                 /\ objs'[i].scrollEnd = t.id

C18_ThrottleSurvivesFailure == [](C18_FailureInv) /\ [][C18_FailureStep]_vars

\* C18 witness: a frame callback of the header's instance threw after the
\* header's styles and before the logo's, and a later scroll event has been
\* accepted all the same: the object is throttled with both its timers
\* armed, and the frame of that event is the only one pending
C18_Witness ==
  \E i \in DOMAIN objs :
    /\ Bound(i)
    /\ <<"header", "padding-top">> \in DOMAIN styles
    /\ <<"logo", "transform">> \notin DOMAIN styles
    /\ objs[i].scrollFlag = FALSE
    /\ obs[i].sinceScroll = 0
    /\ obs[i].n = 1
    /\ Cardinality(TimersOf(i)) = 2
    /\ frames = <<[self |-> i, scrollPos |-> scrollTop, rem |-> FrameDelay]>>
    /\ styles[<<"header", "padding-top">>] # CssNumber(fn(objs[i].animations[1].properties[1].fn, scrollTop), "px")

\* C19: an object never has more than one trailing timer pending; a
\* trailing timer that fires leaves the object with none (its
\* re-invocation arms none), and an accepted scroll event leaves it with
\* exactly one, due in 64ms (the one pending before is cancelled); and if
\* from some time on no scroll event arrives, then from some time on no
\* timer and no frame callback is pending.
C19_TrailingInv ==
  \A i \in DOMAIN objs : Cardinality(TrailingTimersOf(i)) <= 1

C19_TrailingStep ==
  /\ \A t \in timers :
       (t.kind = "scrollEnd" /\ FireTimer(t))
         => {u \in timers' : u.self = t.self /\ u.kind = "scrollEnd"} = {}
  /\ \A p \in ScrollPositions : \A i \in DOMAIN objs :
       (Scroll(p) /\ Bound(i) /\ objs[i].scrollFlag = TRUE)
         => \E u \in timers' :
              /\ u.rem = TrailingDelay
              /\ {v \in timers' : v.self = i /\ v.kind = "scrollEnd"} = {u}

C19_Quiescence ==
  /\ [](C19_TrailingInv)
  /\ [][C19_TrailingStep]_vars
  /\ (<>[][\A p \in ScrollPositions : ~Scroll(p)]_vars)
       => <>[](timers = {} /\ frames = <<>>)

\* C19 witness: a bound object has accepted an event at position 0 and
\* made its trailing call with position 100; nothing is pending any more
C19_Witness ==
  \E i \in DOMAIN objs :
    /\ Bound(i)
    /\ obs[i].n = 2
    /\ obs[i].last = Some(100)
    /\ scrollTop = 100
    /\ timers = {}
    /\ frames = <<>>

\* C20: an object whose scrollFlag is false has exactly one 16ms timer
\* pending and an object whose scrollFlag is true has none; every
\* acceptance, of a scroll event or of a trailing re-invocation, arms one,
\* due in 16ms; and an object whose scrollFlag is false gets it true again.
C20_FlagInv ==
  \A i \in DOMAIN objs :
    /\ objs[i].scrollFlag = FALSE => Cardinality(FlagTimersOf(i)) = 1
    /\ objs[i].scrollFlag = TRUE => FlagTimersOf(i) = {}
    /\ \A t \in FlagTimersOf(i) : t.rem = ThrottleDelay - obs[i].sinceAny

C20_FlagStep ==
  \A i \in DOMAIN objs \cap DOMAIN objs' :
    (objs[i].scrollFlag = TRUE /\ objs'[i].scrollFlag = FALSE)
      => /\ obs'[i].n = obs[i].n + 1 \/ obs'[i].n = 1
         /\ \E t \in timers' \ timers :
              t.self = i /\ t.kind = "scrollFlag" /\ t.rem = ThrottleDelay

C20_NeverStuck ==
  /\ [](C20_FlagInv)
  /\ [][C20_FlagStep]_vars
  /\ \A i \in 1..(MaxInst + 1) :
       (i \in DOMAIN objs /\ objs[i].scrollFlag = FALSE)
         ~> (i \in DOMAIN objs /\ objs[i].scrollFlag = TRUE)

\* C20 witness: 16ms after its trailing re-invocation a bound object has
\* its scrollFlag true again, and no timer pending
C20_Witness ==
  \E i \in DOMAIN objs :
    /\ Bound(i)
    /\ obs[i].n = 2
    /\ obs[i].sinceAny = ThrottleDelay
    /\ objs[i].scrollFlag = TRUE
    /\ TimersOf(i) = {}

=============================================================================
